---- MODULE Spec2Model ----
(***************************************************************************)
(* A model of the network simplifier (src/src/join_lines.rs) and of the    *)
(* graph builder and its mutations (src/src/osm2graph.rs).                 *)
(*                                                                         *)
(* Coordinates are f64 metres in the source.  The model writes a           *)
(* coordinate as an integer number of 1/256 m, so that every coordinate    *)
(* and its product with 100.0 is an exact binary fraction and the cast to  *)
(* isize is the only rounding that takes place.                            *)
(***************************************************************************)
EXTENDS Integers, Sequences, FiniteSets, TLC

VARIABLES
    input,          \* join_lines.rs: input_lines, the Vec handed to the pass
    func,           \* which pass runs: "collapse_degree_2" or "collapse_loops"
    pc,             \* position of the running function
    lines,          \* join_lines.rs: lines, HashMap<usize, KeyedLineString>
    id_counter,     \* join_lines.rs: id_counter
    point_to_line,  \* join_lines.rs: point_to_line, HashMap<HashedPoint, Vec<usize>>
    degree_two,     \* join_lines.rs: degree_two, the candidates not yet visited
    loop_pairs,     \* join_lines.rs: loop_pairs, the pairs not yet visited
    pass,           \* 1: first application, 2: the pass applied to its own output
    ways,           \* osm2graph.rs: ways, the Vec<Way> handed to split_edges
    gpc,            \* position of the graph's code
    way_i,          \* split_edges: the way the outer loop is at (1-based)
    idx,            \* split_edges: idx, the position in way.node_ids (0-based)
    node1,          \* split_edges: node1
    pts,            \* split_edges: pts
    nodes,          \* split_edges: nodes
    node_counter,   \* split_edges: node_counter
    split_counter,  \* split_edges: id_counter
    node_to_intersection,   \* split_edges: node_to_intersection
    intersections,  \* Graph.intersections, BTreeMap<IntersectionID, Intersection>
    edges,          \* Graph.edges, BTreeMap<EdgeID, Edge>
    node_to_edge,   \* Graph.node_to_edge, HashMap<NodeID, EdgeID>
    last_op,        \* the operation that produced the graph as it is
    removed,        \* the edges the last remove_edges took out
    remove_arg,     \* Graph::remove_edges: remove, the set of the last call
    probe,          \* two coordinates handed to HashedPoint::new
    hashed          \* the two HashedPoints made of them

jvars == <<input, func, pc, lines, id_counter, point_to_line, degree_two,
           loop_pairs, pass>>

gvars == <<ways, gpc, way_i, idx, node1, pts, nodes, node_counter, split_counter,
           node_to_intersection, intersections, edges, node_to_edge, last_op,
           removed, remove_arg>>

hvars == <<probe, hashed>>

vars == <<jvars, gvars, hvars>>

----------------------------------------------------------------------------
(* Bounds of the model *)

MaxLines == 3

\* Number of 1/256 m in a metre: the unit the model writes coordinates in.
CoordUnit == 2 ^ 8

\* Raw endpoint coordinates, in 1/256 m.
\* Four points 5 m apart: (0,0), (0,5), (0,10), (0,15) metres.
GridCoords == << <<0, 0>>, <<0, 5 * CoordUnit>>, <<0, 10 * CoordUnit>>,
                 <<0, 15 * CoordUnit>> >>

\* Three of them and a point 1/256 m away from (0,5) in both axes, which is
\* in the same centimetre cell as (0,5).
NearCoords == << <<0, 0>>, <<0, 5 * CoordUnit>>, <<1, 5 * CoordUnit + 1>>,
                 <<0, 10 * CoordUnit>> >>

\* Three coordinates for the inputs that mix partition keys.
KeyedCoords == << <<0, 0>>, <<0, 5 * CoordUnit>>, <<0, 10 * CoordUnit>> >>

Keys == {1, 2}

----------------------------------------------------------------------------
(* Sequences and maps *)

Reverse(s) == [i \in 1..Len(s) |-> s[Len(s) + 1 - i]]

Pop(s) == SubSeq(s, 1, Len(s) - 1)

Range(f) == {f[x] : x \in DOMAIN f}

EmptyMap == [x \in {} |-> <<>>]

MapRemove(m, k) == [x \in DOMAIN m \ {k} |-> m[x]]

MapInsert(m, k, v) == [x \in DOMAIN m \cup {k} |-> IF x = k THEN v ELSE m[x]]

\* Every order in which the elements of S can be visited.
Orders(S) ==
    {s \in [1..Cardinality(S) -> S] : \A i, j \in DOMAIN s : i # j => s[i] # s[j]}

\* as isize: the cast of the exact quotient n/d truncates toward zero.
TruncDiv(n, d) == IF n >= 0 THEN n \div d ELSE -((-n) \div d)

----------------------------------------------------------------------------
(* join_lines.rs: HashedPoint and KeyedLineString *)

\* A quantization that rounds down instead of toward zero.
HashedCoord_floor(v) == (v * 100) \div CoordUnit

\* (pt.x * 100.0) as isize, for pt.x = v / CoordUnit
HashedCoord(v) == TruncDiv(v * 100, CoordUnit)

\* A HashedPoint that leaves the partition key out.
HashedPoint_without_key(pt, key) == <<HashedCoord(pt[1]), HashedCoord(pt[2]), 0>>

HashedPoint(pt, key) == <<HashedCoord(pt[1]), HashedCoord(pt[2]), key>>

first_pt(line) == HashedPoint(line.linestring[1], line.key)

last_pt(line) == HashedPoint(line.linestring[Len(line.linestring)], line.key)

\* An other_endpt that answers the first point whatever pt is.
other_endpt_first(line, pt) == first_pt(line)

other_endpt(line, pt) ==
    IF first_pt(line) = pt THEN last_pt(line) ELSE first_pt(line)

flip_direction(ids) == [i \in 1..Len(ids) |-> <<ids[i][1], ~ids[i][2]>>]

\* A replace that overwrites every index of the list.
replace_every_index(indices, old, new) == [i \in 1..Len(indices) |-> new]

replace(indices, old, new) ==
    [i \in 1..Len(indices) |-> IF indices[i] = old THEN new ELSE indices[i]]

\* An is_loop that only knows the two lines running in the same direction.
is_loop_same_direction(line1, line2) ==
    first_pt(line1) = first_pt(line2) /\ last_pt(line1) = last_pt(line2)

is_loop(line1, line2) ==
    LET pt1 == first_pt(line1)
        pt2 == last_pt(line1)
        pt3 == first_pt(line2)
        pt4 == last_pt(line2)
    IN  (pt1 = pt3 \/ pt1 = pt4) /\ (pt2 = pt3 \/ pt2 = pt4)

\* The final else branch of join_lines: unreachable!()
join_unreachable(line1, line2) ==
    LET pt1 == first_pt(line1)
        pt2 == last_pt(line1)
        pt3 == first_pt(line2)
        pt4 == last_pt(line2)
    IN  ~(pt1 = pt3 \/ pt1 = pt4 \/ pt2 = pt3 \/ pt2 = pt4)

\* A join_lines that reverses line1's ids without flipping their direction.
join_lines_without_flip(line1, line2) ==
    LET pt1 == first_pt(line1)
        pt2 == last_pt(line1)
        pt3 == first_pt(line2)
        pt4 == last_pt(line2)
    IN  IF pt1 = pt3 THEN
            [linestring |-> Pop(Reverse(line1.linestring)) \o line2.linestring,
             ids |-> Reverse(line1.ids) \o line2.ids,
             key |-> line1.key]
        ELSE IF pt1 = pt4 THEN
            [linestring |-> Pop(line2.linestring) \o line1.linestring,
             ids |-> line2.ids \o line1.ids,
             key |-> line1.key]
        ELSE IF pt2 = pt3 THEN
            [linestring |-> Pop(line1.linestring) \o line2.linestring,
             ids |-> line1.ids \o line2.ids,
             key |-> line1.key]
        ELSE
            [linestring |-> Pop(line1.linestring) \o Reverse(line2.linestring),
             ids |-> line1.ids \o flip_direction(Reverse(line2.ids)),
             key |-> line1.key]

\* A join_lines that keeps the shared coordinate twice when line2 ends where
\* line1 starts.
join_lines_without_pop(line1, line2) ==
    LET pt1 == first_pt(line1)
        pt2 == last_pt(line1)
        pt3 == first_pt(line2)
        pt4 == last_pt(line2)
    IN  IF pt1 = pt3 THEN
            [linestring |-> Pop(Reverse(line1.linestring)) \o line2.linestring,
             ids |-> flip_direction(Reverse(line1.ids)) \o line2.ids,
             key |-> line1.key]
        ELSE IF pt1 = pt4 THEN
            [linestring |-> line2.linestring \o line1.linestring,
             ids |-> line2.ids \o line1.ids,
             key |-> line1.key]
        ELSE IF pt2 = pt3 THEN
            [linestring |-> Pop(line1.linestring) \o line2.linestring,
             ids |-> line1.ids \o line2.ids,
             key |-> line1.key]
        ELSE
            [linestring |-> Pop(line1.linestring) \o Reverse(line2.linestring),
             ids |-> line1.ids \o flip_direction(Reverse(line2.ids)),
             key |-> line1.key]

\* A join_lines that keeps the ids of line1 only.
join_lines_forgetting_ids(line1, line2) ==
    [join_lines_without_flip(line1, line2) EXCEPT !.ids = line1.ids]

join_lines(line1, line2) ==
    LET pt1 == first_pt(line1)
        pt2 == last_pt(line1)
        pt3 == first_pt(line2)
        pt4 == last_pt(line2)
    IN  IF pt1 = pt3 THEN
            [linestring |-> Pop(Reverse(line1.linestring)) \o line2.linestring,
             ids |-> flip_direction(Reverse(line1.ids)) \o line2.ids,
             key |-> line1.key]
        ELSE IF pt1 = pt4 THEN
            [linestring |-> Pop(line2.linestring) \o line1.linestring,
             ids |-> line2.ids \o line1.ids,
             key |-> line1.key]
        ELSE IF pt2 = pt3 THEN
            [linestring |-> Pop(line1.linestring) \o line2.linestring,
             ids |-> line1.ids \o line2.ids,
             key |-> line1.key]
        ELSE
            [linestring |-> Pop(line1.linestring) \o Reverse(line2.linestring),
             ids |-> line1.ids \o flip_direction(Reverse(line2.ids)),
             key |-> line1.key]

\* input_lines.into_iter().enumerate().collect()
enumerate(in) == [i \in 0..(Len(in) - 1) |-> in[i + 1]]

\* point_to_line.entry(pt).or_insert_with(Vec::new).push(id)
push_entry(m, pt, id) ==
    IF pt \in DOMAIN m THEN [m EXCEPT ![pt] = Append(@, id)]
    ELSE MapInsert(m, pt, <<id>>)

\* for (id, line) in &lines { ... }, the HashMap visited in the order `order`
RECURSIVE index_points(_, _, _)
index_points(ls, order, m) ==
    IF order = <<>> THEN m
    ELSE LET id == Head(order)
             m1 == push_entry(m, first_pt(ls[id]), id)
             m2 == push_entry(m1, last_pt(ls[id]), id)
         IN  index_points(ls, Tail(order), m2)

----------------------------------------------------------------------------
(* Inputs *)

\* A caller's linestring for segment `seg`: two coordinates, one id, forward.
Segment(a, b, k, seg) ==
    [linestring |-> <<a, b>>, ids |-> <<<<seg, TRUE>>>>, key |-> k]

\* The shapes a caller's linestring can take over the coordinates C and the
\* keys K: <<index of the first coordinate, index of the last, key>>.
Shapes(C, K) == (1..Len(C)) \X (1..Len(C)) \X K

ShapeCode(C, sh) == (sh[1] * (Len(C) + 1) + sh[2]) * 4 + sh[3]

\* Networks of n linestrings over the coordinates C and the keys K; the
\* linestring at position i carries segment id i.  The position of a
\* linestring in input_lines only names it (its segment id and its first
\* internal id), and the order in which the HashMaps are visited does not
\* follow it, so the networks are listed once, in ascending shape order.
Networks(n, C, K) ==
    { [i \in 1..n |-> Segment(C[e[i][1]], C[e[i][2]], e[i][3], i)] :
        e \in { f \in [1..n -> Shapes(C, K)] :
                  \A i \in 1..(n - 1) :
                     ShapeCode(C, f[i]) <= ShapeCode(C, f[i + 1]) } }

Inputs ==
    UNION { Networks(n, GridCoords, {1}) \cup Networks(n, NearCoords, {1})
              \cup Networks(n, KeyedCoords, Keys) : n \in 1..MaxLines }

----------------------------------------------------------------------------
(* The simplifier *)

\* The simplifier has not been called.
JoinIdle ==
    /\ input = <<>>
    /\ func = "none"
    /\ pc = "idle"
    /\ lines = EmptyMap
    /\ id_counter = 0
    /\ point_to_line = EmptyMap
    /\ degree_two = {}
    /\ loop_pairs = {}
    /\ pass = 1

\* No graph is being built.
GraphIdle ==
    /\ ways = <<>>
    /\ gpc = "idle"
    /\ way_i = 0
    /\ idx = 0
    /\ node1 = 0
    /\ pts = <<>>
    /\ nodes = <<>>
    /\ node_counter = EmptyMap
    /\ split_counter = 0
    /\ node_to_intersection = EmptyMap
    /\ intersections = EmptyMap
    /\ edges = EmptyMap
    /\ node_to_edge = EmptyMap
    /\ last_op = "none"
    /\ removed = {}
    /\ remove_arg = {}

\* No point is being hashed.
HashIdle ==
    /\ probe = <<>>
    /\ hashed = <<>>

InitJoin ==
    /\ input \in Inputs
    /\ func = "none"
    /\ pc = "start"
    /\ lines = EmptyMap
    /\ id_counter = 0
    /\ point_to_line = EmptyMap
    /\ degree_two = {}
    /\ loop_pairs = {}
    /\ pass = 1
    /\ GraphIdle
    /\ HashIdle

\* collapse_degree_2, lines 50-73: number the inputs, index the endpoints,
\* collect the degree 2 points.
collapse_degree_2 ==
    /\ pc = "start"
    /\ pass = 1 \/ func = "collapse_degree_2"
    /\ \E order \in Orders(DOMAIN enumerate(input)) :
         LET ls == enumerate(input)
             index == index_points(ls, order, EmptyMap)
         IN  /\ lines' = ls
             /\ point_to_line' = index
             /\ degree_two' = {pt \in DOMAIN index : Len(index[pt]) = 2}
    /\ id_counter' = Len(input)
    /\ loop_pairs' = {}
    /\ func' = "collapse_degree_2"
    /\ pc' = "loop"
    /\ UNCHANGED <<input, pass>>
    /\ UNCHANGED <<gvars, hvars>>

Panic ==
    /\ pc' = "panic"
    /\ UNCHANGED <<input, func, lines, id_counter, point_to_line, degree_two,
                   loop_pairs, pass>>

\* collapse_degree_2, lines 76-107: one iteration of `for pt in degree_two`
fix_degree_two ==
    /\ pc = "loop"
    /\ func = "collapse_degree_2"
    /\ \E pt \in degree_two :
         IF pt \notin DOMAIN point_to_line THEN Panic
         ELSE
         LET pair == point_to_line[pt]
             without_pt == MapRemove(point_to_line, pt)
             idx1 == pair[1]
             idx2 == pair[2]
         IN  IF idx1 \notin DOMAIN lines \/ idx2 \notin DOMAIN lines THEN Panic
             ELSE IF is_loop(lines[idx1], lines[idx2]) THEN
                 /\ degree_two' = degree_two \ {pt}
                 /\ UNCHANGED <<input, func, pc, lines, id_counter,
                                point_to_line, loop_pairs, pass>>
             ELSE IF idx1 = idx2 THEN Panic
             ELSE
             LET line1 == lines[idx1]
                 line2 == lines[idx2]
                 other_endpt1 == other_endpt(line1, pt)
                 other_endpt2 == other_endpt(line2, pt)
             IN  IF join_unreachable(line1, line2) THEN Panic
                 ELSE IF other_endpt1 \notin DOMAIN without_pt
                         \/ other_endpt2 \notin DOMAIN without_pt THEN Panic
                 ELSE
                 LET joined == join_lines(line1, line2)
                     fixed1 == [without_pt EXCEPT ![other_endpt1] =
                                    replace(@, idx1, id_counter)]
                     fixed2 == [fixed1 EXCEPT ![other_endpt2] =
                                    replace(@, idx2, id_counter)]
                 IN  /\ lines' = MapInsert(MapRemove(MapRemove(lines, idx1), idx2),
                                           id_counter, joined)
                     /\ point_to_line' = fixed2
                     /\ id_counter' = id_counter + 1
                     /\ degree_two' = degree_two \ {pt}
                     /\ UNCHANGED <<input, func, pc, loop_pairs, pass>>
    /\ UNCHANGED <<gvars, hvars>>

\* collapse_loops, lines 116-139
collapse_loops ==
    /\ pc = "start"
    /\ pass = 1 \/ func = "collapse_loops"
    /\ \E order \in Orders(DOMAIN enumerate(input)) :
         LET ls == enumerate(input)
             index == index_points(ls, order, EmptyMap)
         IN  /\ lines' = ls
             /\ point_to_line' = index
             /\ loop_pairs' =
                  { [pt |-> p, pair |-> <<index[p][1], index[p][2]>>] :
                      p \in {q \in DOMAIN index :
                               /\ Len(index[q]) = 2
                               /\ is_loop(ls[index[q][1]], ls[index[q][2]])} }
    /\ id_counter' = Len(input)
    /\ degree_two' = {}
    /\ func' = "collapse_loops"
    /\ pc' = "loop"
    /\ UNCHANGED <<input, pass>>
    /\ UNCHANGED <<gvars, hvars>>

\* collapse_loops, lines 142-154: one iteration of `for (idx1, idx2) in loop_pairs`
fix_loop_pair ==
    /\ pc = "loop"
    /\ func = "collapse_loops"
    /\ \E lp \in loop_pairs :
         LET idx1 == lp.pair[1]
             idx2 == lp.pair[2]
         IN  IF idx1 \in DOMAIN lines /\ idx2 \in DOMAIN lines THEN
                 IF idx2 \notin DOMAIN MapRemove(lines, idx1) THEN Panic
                 ELSE IF join_unreachable(lines[idx1], lines[idx2]) THEN Panic
                 ELSE
                 /\ lines' = MapInsert(MapRemove(MapRemove(lines, idx1), idx2),
                                       id_counter,
                                       join_lines(lines[idx1], lines[idx2]))
                 /\ id_counter' = id_counter + 1
                 /\ loop_pairs' = loop_pairs \ {lp}
                 /\ UNCHANGED <<input, func, pc, point_to_line, degree_two,
                                pass>>
             ELSE
                 /\ loop_pairs' = loop_pairs \ {lp}
                 /\ UNCHANGED <<input, func, pc, lines, id_counter,
                                point_to_line, degree_two, pass>>
    /\ UNCHANGED <<gvars, hvars>>

\* lines.into_values().collect(): the loop is over, the working set is returned
return_lines ==
    /\ pc = "loop"
    /\ degree_two = {}
    /\ loop_pairs = {}
    /\ pc' = "done"
    /\ UNCHANGED <<input, func, lines, id_counter, point_to_line, degree_two,
                   loop_pairs, pass>>
    /\ UNCHANGED <<gvars, hvars>>

\* The caller hands the returned Vec, in the order into_values produced it,
\* to the same pass again.
reapply ==
    /\ pc = "done"
    /\ pass = 1
    /\ \E order \in Orders(DOMAIN lines) :
         input' = [i \in 1..Len(order) |-> lines[order[i]]]
    /\ pass' = 2
    /\ pc' = "start"
    /\ lines' = EmptyMap
    /\ id_counter' = 0
    /\ point_to_line' = EmptyMap
    /\ UNCHANGED <<func, degree_two, loop_pairs>>
    /\ UNCHANGED <<gvars, hvars>>

NextJoin ==
    \/ collapse_degree_2
    \/ fix_degree_two
    \/ collapse_loops
    \/ fix_loop_pair
    \/ return_lines

SpecJoin == InitJoin /\ [][NextJoin]_vars

\* The same passes, each also applied to its own result.
NextAgain ==
    \/ collapse_degree_2
    \/ fix_degree_two
    \/ collapse_loops
    \/ fix_loop_pair
    \/ return_lines
    \/ reapply

SpecAgain == InitJoin /\ [][NextAgain]_vars

----------------------------------------------------------------------------
(* Vocabulary of the simplifier's properties *)

\* The ids of every linestring of the working set, as one collection.
Negated(ids) == [i \in 1..Len(ids) |-> <<ids[i][1], ids[i][2] = FALSE>>]

\* A linestring traversed in its input direction (fwd) or against it.
Traversed(line, fwd) ==
    IF fwd THEN line
    ELSE [linestring |-> [i \in 1..Len(line.linestring) |->
                            line.linestring[Len(line.linestring) + 1 - i]],
          ids |-> Negated([i \in 1..Len(line.ids) |->
                            line.ids[Len(line.ids) + 1 - i]]),
          key |-> line.key]

\* The endpoints of the input, as the simplifier identifies them.
EndPoints(in) ==
    {first_pt(in[i]) : i \in 1..Len(in)} \cup {last_pt(in[i]) : i \in 1..Len(in)}

\* Number of linestring ends of the input that lie at the point pt.
Degree(in, pt) ==
    Cardinality({i \in 1..Len(in) : first_pt(in[i]) = pt})
    + Cardinality({i \in 1..Len(in) : last_pt(in[i]) = pt})

\* <<ord, dir>>: the pieces in - taken in the order ord, piece ord[i]
\* traversed forward iff dir[i] - are connected end to end, and the k + 1
\* points they pass through are all different.
IsLayout(in, ord, dir) ==
    LET k == Len(in)
        At(i) == IF i = 0 THEN first_pt(Traversed(in[ord[1]], dir[1]))
                 ELSE last_pt(Traversed(in[ord[i]], dir[i]))
    IN  /\ \A i \in 1..(k - 1) :
             last_pt(Traversed(in[ord[i]], dir[i]))
               = first_pt(Traversed(in[ord[i + 1]], dir[i + 1]))
        /\ \A i, j \in 0..k : i # j => At(i) # At(j)

ChainLayouts(in) ==
    { l \in Orders(1..Len(in)) \X [1..Len(in) -> BOOLEAN] :
        IsLayout(in, l[1], l[2]) }

\* k >= 2 linestrings connected end to end at k - 1 interior points of
\* degree exactly 2: an open chain.
IsChain(in) ==
    /\ Len(in) >= 2
    /\ Cardinality(EndPoints(in)) = Len(in) + 1
    /\ Cardinality({pt \in EndPoints(in) : Degree(in, pt) = 2}) = Len(in) - 1
    /\ ChainLayouts(in) # {}

\* The coordinate sequences that concatenate the pieces ps, every junction
\* kept once (either piece's coordinate of it).
RECURSIVE ChainLines(_)
ChainLines(ps) ==
    IF Len(ps) = 1 THEN {ps[1]}
    ELSE LET rest == ChainLines(Tail(ps))
         IN  {Pop(ps[1]) \o r : r \in rest} \cup {ps[1] \o Tail(r) : r \in rest}

RECURSIVE ChainIds(_)
ChainIds(ps) == IF ps = <<>> THEN <<>> ELSE ps[1] \o ChainIds(Tail(ps))

\* The linestrings that are the pieces qs (already oriented) joined in order.
Joined(qs) ==
    { [linestring |-> c,
       ids |-> ChainIds([i \in 1..Len(qs) |-> qs[i].ids]),
       key |-> qs[1].key] :
        c \in ChainLines([i \in 1..Len(qs) |-> qs[i].linestring]) }

ChainResults(in) ==
    UNION { Joined([i \in 1..Len(in) |-> Traversed(in[l[1][i]], l[2][i])]) :
            l \in ChainLayouts(in) }

\* Two linestrings whose endpoints pairwise coincide at two different points.
FormLoop(a, b) ==
    /\ first_pt(a) # last_pt(a)
    /\ \/ first_pt(a) = first_pt(b) /\ last_pt(a) = last_pt(b)
       \/ first_pt(a) = last_pt(b) /\ last_pt(a) = first_pt(b)

\* The closed linestrings that go along x and come back along y.
RoundTrips(x, y) ==
    UNION { Joined(<<Traversed(x, d[1]), Traversed(y, d[2])>>) :
            d \in { e \in BOOLEAN \X BOOLEAN :
                      /\ last_pt(Traversed(x, e[1])) = first_pt(Traversed(y, e[2]))
                      /\ last_pt(Traversed(y, e[2])) = first_pt(Traversed(x, e[1])) } }

\* The closed linestrings that go along one of a, b and come back along the other.
LoopResults(a, b) == RoundTrips(a, b) \cup RoundTrips(b, a)

\* Number of times the value v occurs in the map or sequence f.
Occurrences(f, v) == Cardinality({x \in DOMAIN f : f[x] = v})

SameCollection(f, g) ==
    \A v \in Range(f) \cup Range(g) : Occurrences(f, v) = Occurrences(g, v)

----------------------------------------------------------------------------
(* Properties of collapse_degree_2 *)

EasyInput ==
    << Segment(<<0, 0>>, <<0, 5 * CoordUnit>>, 1, 1),
       Segment(<<0, 5 * CoordUnit>>, <<0, 10 * CoordUnit>>, 1, 2) >>

EasyOutput ==
    [linestring |-> << <<0, 0>>, <<0, 5 * CoordUnit>>, <<0, 10 * CoordUnit>> >>,
     ids |-> << <<1, TRUE>>, <<2, TRUE>> >>,
     key |-> 1]

\* C1: collapse_degree_2 applied to an open chain of k >= 2 linestrings
\* returns, whatever the order in which the points and pairs are visited,
\* exactly one linestring: the pieces concatenated in chain order, every
\* junction kept once, with the ids of the pieces in the same order, those of
\* a piece traversed against its input direction reversed and negated.  The
\* input (0,0)-(0,5) [r1], (0,5)-(0,10) [r2] gives (0,0)-(0,5)-(0,10) with
\* [(r1, true), (r2, true)].
C1_ChainCollapses ==
    (func = "collapse_degree_2" /\ IsChain(input)) =>
        /\ pc # "panic"
        /\ pc = "done" =>
             /\ Cardinality(DOMAIN lines) = 1
             /\ Range(lines) \subseteq ChainResults(input)
             /\ input = EasyInput => Range(lines) = {EasyOutput}

\* A chain of three pieces has been collapsed, one piece against its direction.
C1_Witness ==
    /\ pc = "done"
    /\ func = "collapse_degree_2"
    /\ Len(input) = 3
    /\ IsChain(input)
    /\ \E l \in Range(lines) :
         /\ Len(l.ids) = 3
         /\ \E i \in 1..3 : l.ids[i][2] = FALSE

\* C2: collapse_degree_2 never merges two input linestrings whose endpoints
\* pairwise coincide: both stay in the working set, and are in the output,
\* with their coordinates and ids unchanged.
C2_LoopLeftAlone ==
    (func = "collapse_degree_2" /\ pass = 1) =>
        \A i, j \in 1..Len(input) :
            (i # j /\ FormLoop(input[i], input[j])) =>
                /\ pc # "panic"
                /\ pc \in {"loop", "done"} =>
                     /\ (i - 1) \in DOMAIN lines
                     /\ lines[i - 1] = input[i]

\* A two-segment loop was met at a degree 2 point and is in the output,
\* next to a third linestring.
C2_Witness ==
    /\ pc = "done"
    /\ func = "collapse_degree_2"
    /\ Len(input) = 3
    /\ \E i, j \in 1..3 :
         /\ i # j
         /\ FormLoop(input[i], input[j])
         /\ Degree(input, first_pt(input[i])) = 2
         /\ Degree(input, last_pt(input[i])) = 3

\* C7: collapse_degree_2 is idempotent: applied to its own output it merges
\* nothing and returns the same collection of linestrings.
C7_Idempotent ==
    (func = "collapse_degree_2" /\ pass = 2) =>
        /\ pc # "panic"
        /\ pc \in {"loop", "done"} => id_counter = Len(input)
        /\ pc = "done" => SameCollection(lines, input)

\* The second application met a degree 2 point between linestrings that the
\* first application had merged, and returned.
C7_Witness ==
    /\ func = "collapse_degree_2"
    /\ pass = 2
    /\ pc = "done"
    /\ \E pt \in DOMAIN point_to_line : Len(point_to_line[pt]) = 2
    /\ \E l \in Range(lines) : Len(l.ids) >= 2

----------------------------------------------------------------------------
(* Properties of collapse_loops *)

LoopInput ==
    << Segment(<<0, 0>>, <<0, 5 * CoordUnit>>, 1, 1),
       Segment(<<0, 5 * CoordUnit>>, <<0, 0>>, 1, 2) >>

LoopCase1 ==
    [linestring |-> << <<0, 0>>, <<0, 5 * CoordUnit>>, <<0, 0>> >>,
     ids |-> << <<1, TRUE>>, <<2, TRUE>> >>,
     key |-> 1]

LoopCase2 ==
    [linestring |-> << <<0, 5 * CoordUnit>>, <<0, 0>>, <<0, 5 * CoordUnit>> >>,
     ids |-> << <<2, TRUE>>, <<1, TRUE>> >>,
     key |-> 1]

\* The two linestrings have the same two coordinates as their endpoints.
ExactlyShared(a, b) ==
    {a.linestring[1], a.linestring[Len(a.linestring)]}
      = {b.linestring[1], b.linestring[Len(b.linestring)]}

\* C3: collapse_loops applied to exactly two linestrings that share both
\* endpoints returns exactly one linestring; it is closed, goes along one
\* input and comes back along the other with each of the two shared
\* coordinates as a junction once, and its ids are those of the inputs in
\* that order, with the flags of that traversal.  For (0,0)-(0,5) [r1],
\* (0,5)-(0,0) [r2] it is (0,0),(0,5),(0,0) with [r1, r2] or (0,5),(0,0),(0,5)
\* with [r2, r1].
C3_LoopCloses ==
    (func = "collapse_loops" /\ pass = 1 /\ Len(input) = 2
        /\ FormLoop(input[1], input[2])) =>
        /\ pc # "panic"
        /\ pc = "done" =>
             /\ Cardinality(DOMAIN lines) = 1
             /\ \A l \in Range(lines) :
                  /\ l \in LoopResults(input[1], input[2])
                  /\ first_pt(l) = last_pt(l)
                  /\ ExactlyShared(input[1], input[2]) =>
                        l.linestring[1] = l.linestring[Len(l.linestring)]
             /\ input = LoopInput => Range(lines) \subseteq {LoopCase1, LoopCase2}

\* Two linestrings from P to Q have been closed into one ring, the first of
\* them traversed against its direction.
C3_Witness ==
    /\ func = "collapse_loops"
    /\ pc = "done"
    /\ Len(input) = 2
    /\ FormLoop(input[1], input[2])
    /\ first_pt(input[1]) = first_pt(input[2])
    /\ \E l \in Range(lines) : Len(l.ids) = 2 /\ l.ids[1][2] = FALSE

\* The pairs of distinct input linestrings that share both endpoints, at a
\* point where exactly those two ends meet.
LoopPairs(in) ==
    { p \in (1..Len(in)) \X (1..Len(in)) :
        /\ p[1] < p[2]
        /\ FormLoop(in[p[1]], in[p[2]])
        /\ \/ Degree(in, first_pt(in[p[1]])) = 2
           \/ Degree(in, last_pt(in[p[1]])) = 2 }

LoopsOutput(in, out) ==
    LET pairs == LoopPairs(in)
        paired == {i \in 1..Len(in) : \E p \in pairs : i \in {p[1], p[2]}}
    IN  /\ Cardinality(DOMAIN out) = Len(in) - Cardinality(pairs)
        /\ \A i \in (1..Len(in)) \ paired :
             (i - 1) \in DOMAIN out /\ out[i - 1] = in[i]
        /\ \A p \in pairs :
             Cardinality({m \in DOMAIN out :
                            out[m] \in LoopResults(in[p[1]], in[p[2]])}) = 1

\* C10: for every input network collapse_loops returns one merged linestring
\* for each pair of distinct inputs that form a loop at a point where only
\* their two ends meet, each pair merged once, and every other input
\* unchanged.
C10_LoopsOutput ==
    (func = "collapse_loops" /\ pass = 1) =>
        /\ pc # "panic"
        /\ pc = "done" => LoopsOutput(input, lines)

\* What collapse_loops returns, when it returns, is as C10 says.
LoopsOutputWhenReturned ==
    (func = "collapse_loops" /\ pass = 1 /\ pc = "done") =>
        LoopsOutput(input, lines)

----------------------------------------------------------------------------
(* Partition keys *)

\* The centimetre cell of a coordinate.
Cell(c) == <<HashedCoord(c[1]), HashedCoord(c[2])>>

\* Number of ends of input linestrings with the key and in the cell of pt.
KeyedDegree(in, pt) ==
    Cardinality({i \in 1..Len(in) :
        in[i].key = pt[3] /\ Cell(in[i].linestring[1]) = <<pt[1], pt[2]>>})
    + Cardinality({i \in 1..Len(in) :
        in[i].key = pt[3]
        /\ Cell(in[i].linestring[Len(in[i].linestring)]) = <<pt[1], pt[2]>>})

\* C9: neither pass merges linestrings with different keys: the ids of every
\* linestring of the working set come from inputs with its key, and the
\* degree of a point counts the ends with the point's key only.
C9_KeysKeptApart ==
    (pass = 1 /\ pc # "start") =>
        /\ \A id \in DOMAIN lines :
             \A i \in 1..Len(lines[id].ids) :
                input[lines[id].ids[i][1]].key = lines[id].key
        /\ \A pt \in DOMAIN point_to_line :
             Len(point_to_line[pt]) = KeyedDegree(input, pt)

\* Two linestrings were merged at a point where a linestring with another
\* key ends too.
C9_Witness ==
    /\ pc = "done"
    /\ \E l \in Range(lines) :
         /\ Len(l.ids) = 2
         /\ \E j \in 1..Len(input) :
              /\ input[j].key # l.key
              /\ Cell(l.linestring[2])
                   \in {Cell(input[j].linestring[1]), Cell(input[j].linestring[2])}

----------------------------------------------------------------------------
(* osm2graph.rs: the graph builder.  Tags are opaque to it and left out;   *)
(* the mercator record and the boundary polygon of the Graph, which no     *)
(* method reads, are left out too.                                         *)

NumNodes == 3

MaxWays == 2

MaxWayLen == 3

NodeIDs == 1..NumNodes

\* node_mapping: the coordinate of every node
node_mapping == [n \in NodeIDs |-> <<n, 0>>]

\* A scraped way: its id and its nodes (at least 2, all in the table).
\* The list of ways can be empty.
WayInputs ==
    UNION { { [i \in 1..w |-> [id |-> i, node_ids |-> ns[i]]] :
              ns \in [1..w -> UNION {[1..k -> NodeIDs] : k \in 2..MaxWayLen}] } :
            w \in 0..MaxWays }

\* The builder alone is also run on one way of up to MaxSplitLen nodes, by
\* itself or next to a way of two nodes, in either order.
MaxSplitLen == MaxWayLen + 2

SplitWayInputs(len) ==
    LET long == UNION {[1..k -> NodeIDs] : k \in 2..len}
        short == [1..2 -> NodeIDs]
        numbered(ns) == [i \in 1..Len(ns) |-> [id |-> i, node_ids |-> ns[i]]]
    IN  {numbered(<<l>>) : l \in long}
          \cup {numbered(<<l, t>>) : l \in long, t \in short}
          \cup {numbered(<<t, l>>) : l \in long, t \in short}

Min(S) == CHOOSE x \in S : \A y \in S : x <= y

\* *node_counter.entry(*node).or_insert(0) += 1, for every node of every way
count_references(ws) ==
    LET refs == {r \in (1..Len(ws)) \X (1..MaxSplitLen) :
                    r[2] <= Len(ws[r[1]].node_ids)}
        seen == {ws[r[1]].node_ids[r[2]] : r \in refs}
    IN  [n \in seen |->
            Cardinality({r \in refs : ws[r[1]].node_ids[r[2]] = n})]

\* An is_endpoint that forgets the last node of the way.
is_endpoint_without_last(i, num_nodes, node, counter) ==
    i = 0 \/ counter[node] > 1

is_endpoint(i, num_nodes, node, counter) ==
    i = 0 \/ i = num_nodes - 1 \/ counter[node] > 1

\* A lookup that lists an edge once at an intersection, also when the edge
\* both starts and ends there.
attach_intersection_once(st, n, point, edge_id) ==
    LET known == n \in DOMAIN st.n2i
        i == IF known THEN st.n2i[n] ELSE st.counter
        ints1 == IF known THEN st.ints
                 ELSE MapInsert(st.ints, i,
                        [id |-> i, osm_node |-> n, point |-> point, edges |-> <<>>])
    IN  [counter |-> IF known THEN st.counter ELSE st.counter + 1,
         ints |-> IF edge_id \in Range(ints1[i].edges) THEN ints1
                  ELSE [ints1 EXCEPT ![i].edges = Append(@, edge_id)],
         n2i |-> IF known THEN st.n2i ELSE MapInsert(st.n2i, n, i),
         i_ids |-> Append(st.i_ids, i)]

\* Lines 274-292: the intersection of the boundary node n is looked up or
\* created, and the new edge is pushed to its list.
\* st = [counter, ints, n2i, i_ids]
attach_intersection(st, n, point, edge_id) ==
    LET known == n \in DOMAIN st.n2i
        i == IF known THEN st.n2i[n] ELSE st.counter
        ints1 == IF known THEN st.ints
                 ELSE MapInsert(st.ints, i,
                        [id |-> i, osm_node |-> n, point |-> point, edges |-> <<>>])
    IN  [counter |-> IF known THEN st.counter ELSE st.counter + 1,
         ints |-> [ints1 EXCEPT ![i].edges = Append(@, edge_id)],
         n2i |-> IF known THEN st.n2i ELSE MapInsert(st.n2i, n, i),
         i_ids |-> Append(st.i_ids, i)]

\* A drain that leaves out the first of the accumulated nodes.
record_nodes_without_first(n2e, ns, edge_id) ==
    [x \in DOMAIN n2e \cup Range(Tail(ns)) |->
        IF x \in Range(Tail(ns)) THEN edge_id ELSE n2e[x]]

\* for node in nodes.drain(..) { node_to_edge.insert(node, edge_id); }
RECURSIVE record_nodes(_, _, _)
record_nodes(n2e, ns, edge_id) ==
    IF ns = <<>> THEN n2e
    ELSE record_nodes(MapInsert(n2e, Head(ns), edge_id), Tail(ns), edge_id)

InitGraph ==
    /\ ways \in WayInputs
    /\ gpc = "start"
    /\ way_i = 0
    /\ idx = 0
    /\ node1 = 0
    /\ pts = <<>>
    /\ nodes = <<>>
    /\ node_counter = EmptyMap
    /\ split_counter = 0
    /\ node_to_intersection = EmptyMap
    /\ intersections = EmptyMap
    /\ edges = EmptyMap
    /\ node_to_edge = EmptyMap
    /\ last_op = "none"
    /\ removed = {}
    /\ remove_arg = {}
    /\ JoinIdle
    /\ HashIdle

\* split_edges, lines 240-260: the references are counted, the maps are
\* empty, the outer loop is at the first way.
split_edges ==
    /\ gpc = "start"
    /\ node_counter' = count_references(ways)
    /\ split_counter' = 0
    /\ node_to_intersection' = EmptyMap
    /\ intersections' = EmptyMap
    /\ edges' = EmptyMap
    /\ node_to_edge' = EmptyMap
    /\ idx' = 0
    /\ pts' = <<>>
    /\ nodes' = <<>>
    /\ IF ways = <<>> THEN
           /\ gpc' = "returned"
           /\ last_op' = "split_edges"
           /\ UNCHANGED <<way_i, node1>>
       ELSE
           /\ way_i' = 1
           /\ node1' = ways[1].node_ids[1]
           /\ gpc' = "split"
           /\ UNCHANGED last_op
    /\ UNCHANGED <<ways, removed, remove_arg>>
    /\ UNCHANGED <<jvars, hvars>>

\* The loops move on: to the next node of the way, to the next way (lines
\* 256-260), or out of split_edges, which returns its three maps (line 319).
next_node(last_node1, last_pts, last_nodes) ==
    IF idx + 1 < Len(ways[way_i].node_ids) THEN
        /\ idx' = idx + 1
        /\ node1' = last_node1
        /\ pts' = last_pts
        /\ nodes' = last_nodes
        /\ UNCHANGED <<way_i, gpc, last_op>>
    ELSE IF way_i < Len(ways) THEN
        /\ way_i' = way_i + 1
        /\ idx' = 0
        /\ node1' = ways[way_i + 1].node_ids[1]
        /\ pts' = <<>>
        /\ nodes' = <<>>
        /\ UNCHANGED <<gpc, last_op>>
    ELSE
        /\ gpc' = "returned"
        /\ last_op' = "split_edges"
        /\ idx' = idx + 1
        /\ node1' = last_node1
        /\ pts' = last_pts
        /\ nodes' = last_nodes
        /\ UNCHANGED way_i

\* split_edges, lines 261-316: one iteration of the loop over way.node_ids
split_node ==
    /\ gpc = "split"
    /\ LET way == ways[way_i]
           node == way.node_ids[idx + 1]
           num_nodes == Len(way.node_ids)
           pts1 == Append(pts, node_mapping[node])
           nodes1 == Append(nodes, node)
       IN  IF is_endpoint(idx, num_nodes, node, node_counter) /\ Len(pts1) > 1 THEN
               LET edge_id == split_counter
                   st0 == [counter |-> split_counter + 1, ints |-> intersections,
                           n2i |-> node_to_intersection, i_ids |-> <<>>]
                   st1 == attach_intersection(st0, node1, pts1[1], edge_id)
                   st2 == attach_intersection(st1, node, pts1[Len(pts1)], edge_id)
               IN  /\ split_counter' = st2.counter
                   /\ intersections' = st2.ints
                   /\ node_to_intersection' = st2.n2i
                   /\ edges' = MapInsert(edges, edge_id,
                                [id |-> edge_id,
                                 src |-> st2.i_ids[1],
                                 dst |-> st2.i_ids[2],
                                 osm_way |-> way.id,
                                 osm_node1 |-> node1,
                                 osm_node2 |-> node,
                                 linestring |-> pts1])
                   /\ node_to_edge' = record_nodes(node_to_edge, nodes1, edge_id)
                   /\ next_node(node, <<node_mapping[node]>>, <<>>)
           ELSE
               /\ next_node(node1, pts1, nodes1)
               /\ UNCHANGED <<split_counter, intersections, node_to_intersection,
                              edges, node_to_edge>>
    /\ UNCHANGED <<ways, node_counter, removed, remove_arg>>
    /\ UNCHANGED <<jvars, hvars>>

----------------------------------------------------------------------------
(* osm2graph.rs: Graph::from_scraped_osm.  The projector is an external    *)
(* service; it is modelled after its description: it is fitted to the      *)
(* bounding extent of the geometry and maps coordinates into a frame whose *)
(* origin is a corner of that extent.                                      *)

Max(S) == CHOOSE x \in S : \A y \in S : x >= y

\* Lines 138-147: the coordinates of every edge linestring and of every
\* intersection point.
collection(es, is) ==
    UNION {Range(es[e].linestring) : e \in DOMAIN es}
      \cup {is[i].point : i \in DOMAIN is}

\* Mercator::from: the frame of the bounding extent of the coordinates c,
\* of which there is one at least.
Mercator_from(c) ==
    [min_x |-> Min({pt[1] : pt \in c}), max_x |-> Max({pt[1] : pt \in c}),
     min_y |-> Min({pt[2] : pt \in c}), max_y |-> Max({pt[2] : pt \in c})]

\* Mercator::to_mercator_in_place, on one coordinate: x grows eastwards from
\* the west side of the extent, y grows southwards from its north side.
to_mercator(mercator, pt) == <<pt[1] - mercator.min_x, mercator.max_y - pt[2]>>

\* Graph::from_scraped_osm, lines 138-166, after split_edges has returned:
\* the projector is fitted (and there is none to fit without any geometry:
\* the unwrap of line 148 fails), every linestring and every point is
\* projected, and the Graph is made of the three maps.
from_scraped_osm ==
    /\ gpc = "returned"
    /\ LET c == collection(edges, intersections)
       IN  IF c = {} THEN
               /\ gpc' = "panic"
               /\ UNCHANGED <<edges, intersections>>
           ELSE
               LET mercator == Mercator_from(c)
               IN  /\ edges' =
                        [e \in DOMAIN edges |->
                           [edges[e] EXCEPT !.linestring =
                              [k \in 1..Len(@) |-> to_mercator(mercator, @[k])]]]
                   /\ intersections' =
                        [i \in DOMAIN intersections |->
                           [intersections[i] EXCEPT !.point = to_mercator(mercator, @)]]
                   /\ gpc' = "graph"
    /\ UNCHANGED <<ways, way_i, idx, node1, pts, nodes, node_counter, split_counter,
                   node_to_intersection, node_to_edge, last_op, removed, remove_arg>>
    /\ UNCHANGED <<jvars, hvars>>

----------------------------------------------------------------------------
(* osm2graph.rs: Graph::remove_edges and Graph::compact_ids *)

\* .edges.retain(|x| *x != e)
retain_other(list, e) == SelectSeq(list, LAMBDA x : x # e)

\* An unlinking that forgets the dst intersection of the edge.
unlink_src_only(ints, edge) ==
    [ints EXCEPT ![edge.src].edges = retain_other(@, edge.id)]

\* Lines 172-181: the edge is taken off the lists of its src and of its dst.
unlink(ints, edge) ==
    LET ints1 == [ints EXCEPT ![edge.src].edges = retain_other(@, edge.id)]
    IN  [ints1 EXCEPT ![edge.dst].edges = retain_other(@, edge.id)]

\* Lines 170-182: for e in remove, in the BTreeSet's ascending order.
\* g = [edges, intersections, ok]; ok is FALSE once an unwrap has failed,
\* and g is then the graph as the failed unwrap found it: of the edge at
\* which it failed, line 171 has taken the edge off the map when the
\* failure is at line 174 or 178, and line 176 has emptied the src list of
\* it when the failure is at line 178.
RECURSIVE remove_each(_, _)
remove_each(g, remove) ==
    IF remove = {} \/ ~g.ok THEN g
    ELSE LET e == Min(remove)
         IN  IF e \notin DOMAIN g.edges THEN [g EXCEPT !.ok = FALSE]
             ELSE
             LET edge == g.edges[e]
                 g1 == [g EXCEPT !.edges = MapRemove(g.edges, e)]
             IN  IF edge.src \notin DOMAIN g.intersections
                 THEN [g1 EXCEPT !.ok = FALSE]
                 ELSE IF edge.dst \notin DOMAIN g.intersections
                 THEN [g1 EXCEPT !.ok = FALSE,
                                 !.intersections[edge.src].edges = retain_other(@, e)]
                 ELSE remove_each(
                        [g1 EXCEPT !.intersections =
                                      unlink(g.intersections, [edge EXCEPT !.id = e])],
                        remove \ {e})

\* A panic in a method of the Graph: the call ends there and leaves the
\* Graph as the code before the failed unwrap or index has made it.
GraphPanic(es, is, n2e) ==
    /\ gpc' = "panic"
    /\ edges' = es
    /\ intersections' = is
    /\ node_to_edge' = n2e

\* The sets of ids remove_edges is called with: ids of the graph, and with
\* them or not an id that is no edge of the graph, the least such id or one
\* above every id of the graph.
RemoveArgs ==
    LET absent == { Min((0..Cardinality(DOMAIN edges)) \ DOMAIN edges),
                    Max(DOMAIN edges \cup DOMAIN intersections \cup {0}) + 1 }
    IN  SUBSET DOMAIN edges
          \cup {S \cup {a} : S \in SUBSET DOMAIN edges, a \in absent}

\* Graph::remove_edges, lines 169-187
remove_edges ==
    /\ gpc = "graph"
    /\ \E remove \in RemoveArgs :
         LET g == remove_each([edges |-> edges, intersections |-> intersections,
                               ok |-> TRUE], remove)
         IN  /\ IF ~g.ok THEN GraphPanic(g.edges, g.intersections, node_to_edge)
                ELSE
                /\ edges' = g.edges
                /\ intersections' =
                     [i \in {j \in DOMAIN g.intersections :
                               g.intersections[j].edges # <<>>} |-> g.intersections[i]]
                /\ node_to_edge' =
                     [n \in {m \in DOMAIN node_to_edge :
                               node_to_edge[m] \in DOMAIN g.edges} |-> node_to_edge[n]]
                /\ UNCHANGED gpc
             /\ removed' = {edges[e] : e \in remove \cap DOMAIN edges}
             /\ remove_arg' = remove
             /\ last_op' = "remove_edges"
    /\ UNCHANGED <<ways, way_i, idx, node1, pts, nodes, node_counter, split_counter,
                   node_to_intersection>>
    /\ UNCHANGED <<jvars, hvars>>

\* Lines 193-201 and 203-211: the records of the map m are visited in
\* ascending key order and numbered 0, 1, 2, ...
\* r = [mapping, new]: old id -> new id, and the new map
RECURSIVE reassign(_, _, _)
reassign(m, keys, r) ==
    IF keys = {} THEN r
    ELSE LET k == Min(keys)
             old_id == m[k].id
             new_id == Cardinality(DOMAIN r.new)
         IN  reassign(m, keys \ {k},
                [mapping |-> MapInsert(r.mapping, old_id, new_id),
                 new |-> MapInsert(r.new, new_id, [m[k] EXCEPT !.id = new_id])])

\* A fix-up that leaves the src and dst of the edges as they were.
fix_edge_unchanged(edge, intersection_mapping) == edge

\* Lines 215-216
fix_edge(edge, intersection_mapping) ==
    [edge EXCEPT !.src = intersection_mapping[edge.src],
                 !.dst = intersection_mapping[edge.dst]]

\* Line 219
fix_intersection(node, edge_mapping) ==
    [node EXCEPT !.edges = [k \in 1..Len(node.edges) |-> edge_mapping[node.edges[k]]]]

\* Graph::compact_ids, lines 191-229.  std::mem::take leaves the two maps
\* empty until lines 222-223, so an index that fails at line 215, 216 or 219
\* leaves them empty; one that fails at line 227 leaves them compacted and
\* node_to_edge rewritten for the entries the HashMap visited before.
compact_ids ==
    /\ gpc = "graph"
    /\ LET e == reassign(edges, DOMAIN edges, [mapping |-> EmptyMap, new |-> EmptyMap])
           i == reassign(intersections, DOMAIN intersections,
                         [mapping |-> EmptyMap, new |-> EmptyMap])
           new_edges == [x \in DOMAIN e.new |-> fix_edge(e.new[x], i.mapping)]
           new_intersections ==
               [x \in DOMAIN i.new |-> fix_intersection(i.new[x], e.mapping)]
           known == {n \in DOMAIN node_to_edge : node_to_edge[n] \in DOMAIN e.mapping}
       IN  IF \/ \E x \in DOMAIN e.new :
                   {e.new[x].src, e.new[x].dst} \ DOMAIN i.mapping # {}
              \/ \E x \in DOMAIN i.new :
                   Range(i.new[x].edges) \ DOMAIN e.mapping # {}
           THEN GraphPanic(EmptyMap, EmptyMap, node_to_edge)
           ELSE IF known # DOMAIN node_to_edge
           THEN \E visited \in SUBSET known :
                   GraphPanic(new_edges, new_intersections,
                              [n \in DOMAIN node_to_edge |->
                                  IF n \in visited THEN e.mapping[node_to_edge[n]]
                                  ELSE node_to_edge[n]])
           ELSE
           /\ edges' = new_edges
           /\ intersections' = new_intersections
           /\ node_to_edge' =
                [n \in DOMAIN node_to_edge |-> e.mapping[node_to_edge[n]]]
           /\ UNCHANGED gpc
    /\ last_op' = "compact_ids"
    /\ removed' = {}
    /\ remove_arg' = {}
    /\ UNCHANGED <<ways, way_i, idx, node1, pts, nodes, node_counter, split_counter,
                   node_to_intersection>>
    /\ UNCHANGED <<jvars, hvars>>

NextGraph ==
    \/ split_edges
    \/ split_node
    \/ from_scraped_osm
    \/ remove_edges
    \/ compact_ids

SpecGraph == InitGraph /\ [][NextGraph]_vars

----------------------------------------------------------------------------
(* Properties of the graph *)

\* C4: after remove_edges(S), for ids S of the graph (self-loops and edges
\* sharing an intersection included): no edge of S is in the edge map, no
\* incident list holds an id of S, no intersection with an empty incident
\* list is left, and no node_to_edge entry points at a removed edge.
C4_RemovedEdgesGone ==
    (last_op = "remove_edges" /\ remove_arg \subseteq {r.id : r \in removed}) =>
         LET S == remove_arg
         IN  /\ gpc = "graph"
             /\ S \cap DOMAIN edges = {}
             /\ \A i \in DOMAIN intersections :
                  /\ Range(intersections[i].edges) \cap S = {}
                  /\ intersections[i].edges # <<>>
             /\ Range(node_to_edge) \cap S = {}

\* A self-loop and another edge at its intersection were removed together,
\* and an edge is left.
C4_Witness ==
    /\ gpc = "graph"
    /\ last_op = "remove_edges"
    /\ edges # EmptyMap
    /\ \E r1, r2 \in removed :
         /\ r1.src = r1.dst
         /\ r2.id # r1.id
         /\ r1.src \in {r2.src, r2.dst}

\* Number of elements of S below x: the place of x in ascending order.
Rank(S, x) == Cardinality({y \in S : y < x})

\* The graph after the step is the graph before it, renumbered in ascending
\* order of the ids, and its cross-references are consistent.
Compacted ==
    LET E == DOMAIN edges
        I == DOMAIN intersections
    IN  /\ DOMAIN edges' = 0..(Cardinality(E) - 1)
        /\ DOMAIN intersections' = 0..(Cardinality(I) - 1)
        /\ \A x \in E :
             edges'[Rank(E, x)] =
                [edges[x] EXCEPT !.id = Rank(E, x),
                                 !.src = Rank(I, edges[x].src),
                                 !.dst = Rank(I, edges[x].dst)]
        /\ \A x \in I :
             intersections'[Rank(I, x)] =
                [intersections[x] EXCEPT
                    !.id = Rank(I, x),
                    !.edges = [k \in 1..Len(intersections[x].edges) |->
                                 Rank(E, intersections[x].edges[k])]]
        /\ DOMAIN node_to_edge' = DOMAIN node_to_edge
        /\ \A n \in DOMAIN node_to_edge :
             node_to_edge'[n] = Rank(E, node_to_edge[n])
        /\ \A x \in DOMAIN edges' :
             /\ edges'[x].src \in DOMAIN intersections'
             /\ edges'[x].dst \in DOMAIN intersections'
             /\ x \in Range(intersections'[edges'[x].src].edges)
             /\ x \in Range(intersections'[edges'[x].dst].edges)
        /\ \A x \in DOMAIN intersections' :
             Range(intersections'[x].edges) \subseteq DOMAIN edges'
        /\ Range(node_to_edge') \subseteq DOMAIN edges'

\* C5: compact_ids, on any graph reached by building and removing edges,
\* leaves the edge ids 0..E-1 and the intersection ids 0..I-1, assigned in
\* ascending order of the ids before, and rewrites every cross-reference
\* through that mapping, so that they stay consistent.
C5_CompactIds ==
    [][ (gpc = "graph" /\ last_op' = "compact_ids") =>
            (gpc' = "graph" /\ Compacted) ]_vars

\* A graph that had lost edges was compacted, and has two edges or more.
C5_Witness ==
    /\ gpc = "graph"
    /\ last_op = "compact_ids"
    /\ Cardinality(DOMAIN edges) >= 2
    /\ DOMAIN node_to_edge # DOMAIN node_counter

\* The nodes that more than one way references.
SharedNodes(ws) ==
    {n \in NodeIDs :
        Cardinality({w \in 1..Len(ws) : n \in Range(ws[w].node_ids)}) > 1}

\* The first and the last node of every way.
EndNodes(ws) ==
    {ws[w].node_ids[1] : w \in 1..Len(ws)}
      \cup {ws[w].node_ids[Len(ws[w].node_ids)] : w \in 1..Len(ws)}

\* C6: the graph split_edges builds has an Intersection for every node that
\* more than one way references and for the first and last node of every
\* way; no raw node ever has two Intersections.
C6_Intersections ==
    /\ \A i, j \in DOMAIN intersections :
         i # j => intersections[i].osm_node # intersections[j].osm_node
    /\ (gpc = "graph" /\ last_op = "split_edges") =>
         \A n \in SharedNodes(ways) \cup EndNodes(ways) :
            \E i \in DOMAIN intersections : intersections[i].osm_node = n

\* A graph was built of two ways, one with a dead end referenced once, and
\* one crossed in its interior by the other.
C6_Witness ==
    /\ gpc = "graph"
    /\ last_op = "split_edges"
    /\ Len(ways) = 2
    /\ \E n \in EndNodes(ways) : node_counter[n] = 1
    /\ \E w \in 1..2 :
         /\ Len(ways[w].node_ids) = 3
         /\ ways[w].node_ids[2] \in SharedNodes(ways)
         /\ ways[w].node_ids[2] \notin {ways[w].node_ids[1], ways[w].node_ids[3]}

----------------------------------------------------------------------------
(* HashedPoint::new on pairs of coordinates *)

\* Coordinates within MaxOffset/256 m of zero on both axes.
MaxOffset == 5

Offsets == (0 - MaxOffset)..MaxOffset

InitHash ==
    /\ probe \in [a : Offsets \X Offsets, b : Offsets \X Offsets,
                  key_a : {1}, key_b : Keys]
    /\ hashed = <<>>
    /\ JoinIdle
    /\ GraphIdle

\* first_pt / last_pt of two linestrings: HashedPoint::new on each endpoint
hash_endpoints ==
    /\ hashed = <<>>
    /\ hashed' = <<HashedPoint(probe.a, probe.key_a), HashedPoint(probe.b, probe.key_b)>>
    /\ UNCHANGED probe
    /\ UNCHANGED <<jvars, gvars>>

NextHash == hash_endpoints

SpecHash == InitHash /\ [][NextHash]_vars

Abs(x) == IF x >= 0 THEN x ELSE 0 - x

\* u and v (in 1/256 m) differ by less than n cm: |u - v| / 256 m < n / 100 m
CloserThanCm(u, v, n) == Abs(u - v) * 100 < n * CoordUnit

\* The centimetre cells of an axis: [c, c+1) cm for c >= 1, (c-1, c] cm for
\* c <= -1, and (-1, 1) cm for c = 0.
InCell(u, c) ==
    IF c > 0 THEN c * CoordUnit <= u * 100 /\ u * 100 < (c + 1) * CoordUnit
    ELSE IF c < 0 THEN (c - 1) * CoordUnit < u * 100 /\ u * 100 <= c * CoordUnit
    ELSE (0 - CoordUnit) < u * 100 /\ u * 100 < CoordUnit

SameCell(u, v) ==
    \E c \in (0 - MaxOffset - 1)..(MaxOffset + 1) : InCell(u, c) /\ InCell(v, c)

\* C8, as stated: with the same key, two endpoints less than 1 cm apart on
\* both axes are the same HashedPoint, and two endpoints 1 cm or more apart
\* on either axis are different HashedPoints.
C8_OneCentimetre ==
    (hashed # <<>> /\ probe.key_a = probe.key_b) =>
        /\ (CloserThanCm(probe.a[1], probe.b[1], 1)
              /\ CloserThanCm(probe.a[2], probe.b[2], 1)) => hashed[1] = hashed[2]
        /\ (~CloserThanCm(probe.a[1], probe.b[1], 1)
              \/ ~CloserThanCm(probe.a[2], probe.b[2], 1)) => hashed[1] # hashed[2]

\* C8, amended: with the same key, two endpoints are the same HashedPoint
\* iff on both axes they lie in the same cell of the truncation: [c, c+1) cm
\* for c >= 1, (c-1, c] cm for c <= -1, (-1, 1) cm around zero.  Equal points
\* are less than 2 cm apart on each axis, and less than 1 cm where neither
\* coordinate is in the cell around zero.
C8_TruncatedCells ==
    (hashed # <<>> /\ probe.key_a = probe.key_b) =>
        /\ hashed[1] = hashed[2] <=>
             (SameCell(probe.a[1], probe.b[1]) /\ SameCell(probe.a[2], probe.b[2]))
        /\ hashed[1] = hashed[2] =>
             \A axis \in {1, 2} :
                /\ CloserThanCm(probe.a[axis], probe.b[axis], 2)
                /\ (~InCell(probe.a[axis], 0) \/ ~InCell(probe.b[axis], 0)) =>
                      CloserThanCm(probe.a[axis], probe.b[axis], 1)

\* Two endpoints more than 1 cm apart, on either side of zero, have been
\* given the same HashedPoint.
C8_Witness ==
    /\ hashed # <<>>
    /\ probe.key_a = probe.key_b
    /\ probe.a[1] < 0
    /\ probe.b[1] > 0
    /\ ~CloserThanCm(probe.a[1], probe.b[1], 1)
    /\ hashed[1] = hashed[2]

----------------------------------------------------------------------------
(* Invariants of the graph *)

\* Number of ends of the edge e at the intersection i.
EndsAt(e, i) ==
    (IF edges[e].src = i THEN 1 ELSE 0) + (IF edges[e].dst = i THEN 1 ELSE 0)

\* C11: in every graph reached by building and then removing edges and
\* compacting ids, every intersection has a non-empty incident list that
\* holds one entry per incident edge end (an edge once if one of its ends is
\* the intersection, twice if both are, not at all otherwise), and every
\* listed edge is in the edge map.
C11_IncidentLists ==
    gpc = "graph" =>
        \A i \in DOMAIN intersections :
            /\ intersections[i].edges # <<>>
            /\ Range(intersections[i].edges) \subseteq DOMAIN edges
            /\ \A e \in DOMAIN edges :
                 Occurrences(intersections[i].edges, e) = EndsAt(e, i)

\* After a removal, an intersection is left with a self-loop, listed twice,
\* and another edge, listed once.
C11_Witness ==
    /\ gpc = "graph"
    /\ last_op = "remove_edges"
    /\ removed # {}
    /\ \E i \in DOMAIN intersections :
         \E e1, e2 \in DOMAIN edges :
            /\ EndsAt(e1, i) = 2
            /\ EndsAt(e2, i) = 1
            /\ Len(intersections[i].edges) = 3

----------------------------------------------------------------------------
(* The builder alone, on longer ways *)

InitSplit ==
    /\ ways \in SplitWayInputs(MaxSplitLen)
    /\ gpc = "start"
    /\ way_i = 0
    /\ idx = 0
    /\ node1 = 0
    /\ pts = <<>>
    /\ nodes = <<>>
    /\ node_counter = EmptyMap
    /\ split_counter = 0
    /\ node_to_intersection = EmptyMap
    /\ intersections = EmptyMap
    /\ edges = EmptyMap
    /\ node_to_edge = EmptyMap
    /\ last_op = "none"
    /\ removed = {}
    /\ remove_arg = {}
    /\ JoinIdle
    /\ HashIdle

NextSplit ==
    \/ split_edges
    \/ split_node
    \/ from_scraped_osm

SpecSplit == InitSplit /\ [][NextSplit]_vars

\* The loop over the nodes is at an interior position of the way.
AtInterior ==
    /\ gpc = "split"
    /\ 0 < idx
    /\ idx < Len(ways[way_i].node_ids) - 1

\* C12: a node at an interior position of a way ends the pending edge (an
\* edge is emitted at it) if and only if more than one way references the
\* node; a node that one way alone references, however often, does not
\* split the way.
C12_SplitsAtSharedNodes ==
    [][ AtInterior =>
          ((DOMAIN edges' # DOMAIN edges)
             <=> (ways[way_i].node_ids[idx + 1] \in SharedNodes(ways))) ]_vars

----------------------------------------------------------------------------
(* collapse_degree_2 never fails *)

\* The candidate point pt can be processed in the current state without a
\* failure: its index entry holds two linestrings of the working set, and
\* unless they form a loop they are two different linestrings that share an
\* endpoint in one of the four configurations and whose outer endpoints are
\* in the point index.
Processable(pt) ==
    /\ pt \in DOMAIN point_to_line
    /\ Len(point_to_line[pt]) = 2
    /\ LET idx1 == point_to_line[pt][1]
           idx2 == point_to_line[pt][2]
       IN  /\ idx1 \in DOMAIN lines
           /\ idx2 \in DOMAIN lines
           /\ ~is_loop(lines[idx1], lines[idx2]) =>
                /\ idx1 # idx2
                /\ ~join_unreachable(lines[idx1], lines[idx2])
                /\ other_endpt(lines[idx1], pt) \in DOMAIN point_to_line \ {pt}
                /\ other_endpt(lines[idx2], pt) \in DOMAIN point_to_line \ {pt}

\* C13: collapse_degree_2 never reaches a fatal failure: every candidate
\* point still to be processed has both its linestrings in the working set,
\* the pair shares an endpoint in one of the four configurations, and both
\* outer endpoints are in the point index when it is fixed up.
C13_NeverFails ==
    func = "collapse_degree_2" =>
        /\ pc # "panic"
        /\ pc = "loop" => \A pt \in degree_two : Processable(pt)

\* A candidate point is about to be processed, and merged, at which one of
\* the two linestrings is the result of an earlier merge.
C13_Witness ==
    /\ func = "collapse_degree_2"
    /\ pc = "loop"
    /\ \E pt \in degree_two :
         /\ Processable(pt)
         /\ ~is_loop(lines[point_to_line[pt][1]], lines[point_to_line[pt][2]])
         /\ \E k \in 1..2 : point_to_line[pt][k] >= Len(input)

----------------------------------------------------------------------------
(* The reverse index of split_edges *)

\* C14: whenever split_edges emits an edge, node_to_edge maps every node
\* visited while accumulating the edge (its starting boundary node, its
\* interior nodes and its ending boundary node) to the id of the new edge
\* right after the emission, for every edge of a way.
C14_EveryNodeRecorded ==
    [][ (gpc = "split" /\ DOMAIN edges' # DOMAIN edges) =>
          \A e \in DOMAIN edges' \ DOMAIN edges :
             \A n \in {node1, ways[way_i].node_ids[idx + 1]} \cup Range(nodes) :
                n \in DOMAIN node_to_edge' /\ node_to_edge'[n] = e ]_vars

----------------------------------------------------------------------------
(* Provenance *)

\* How often the segment id seg occurs in the ids of the linestrings of f.
IdCount(f, seg) ==
    Cardinality(UNION { { <<l, k>> : k \in {j \in DOMAIN f[l].ids : f[l].ids[j][1] = seg} } :
                        l \in DOMAIN f })

\* C15: both passes conserve provenance: after every merge step, and in the
\* output, every segment id occurs in the linestrings of the working set
\* exactly as often as in the input.
C15_ProvenanceConserved ==
    pc \in {"loop", "done"} =>
        \A seg \in 1..MaxLines : IdCount(lines, seg) = IdCount(input, seg)

\* collapse_loops has merged a loop next to a third linestring and returned.
C15_Witness ==
    /\ func = "collapse_loops"
    /\ pc = "done"
    /\ Len(input) = 3
    /\ \E a, b \in DOMAIN lines : Len(lines[a].ids) = 2 /\ Len(lines[b].ids) = 1
    /\ \A seg \in 1..3 : IdCount(lines, seg) = 1

----------------------------------------------------------------------------
(* collapse_loops applied to its own result *)

\* C16: collapse_loops is idempotent and total on its own results: applied
\* to an output of collapse_loops, closed linestrings included, it completes
\* normally, merges nothing and returns the same collection.
C16_LoopsIdempotent ==
    (func = "collapse_loops" /\ pass = 2) =>
        /\ pc # "panic"
        /\ pc \in {"loop", "done"} => id_counter = Len(input)
        /\ pc = "done" => SameCollection(lines, input)

\* What the second application returns, when it returns, is its input.
LoopsAgainWhenReturned ==
    (func = "collapse_loops" /\ pass = 2 /\ pc = "done") =>
        /\ id_counter = Len(input)
        /\ SameCollection(lines, input)

\* The second application fails only on inputs that hold a closed linestring.
LoopsAgainFailsOnClosed ==
    (func = "collapse_loops" /\ pass = 2 /\ pc = "panic") =>
        \E i \in 1..Len(input) : first_pt(input[i]) = last_pt(input[i])

----------------------------------------------------------------------------
(* The reverse index and the intersections *)

\* The raw node of the intersection i is a key of node_to_edge.
Indexed(i) == intersections[i].osm_node \in DOMAIN node_to_edge

\* The raw node of the intersection i maps to an edge incident to i.
IndexedAtIncident(i) ==
    node_to_edge[intersections[i].osm_node] \in Range(intersections[i].edges)

\* C17, as stated: in every graph reached by building and then removing
\* edges and compacting ids, the raw node of every intersection is a key of
\* node_to_edge and maps to an edge incident to the intersection.
C17_IntersectionsIndexed ==
    gpc = "graph" =>
        \A i \in DOMAIN intersections : Indexed(i) /\ IndexedAtIncident(i)

\* C17, amended: in the graph as built, the raw node of every intersection
\* is a key of node_to_edge and maps to an edge incident to it.  After
\* removals and compactions every value of node_to_edge is an edge of the
\* graph, and the raw node of an intersection, where it still is a key, maps
\* to an edge incident to the intersection; remove_edges drops the entry of
\* an intersection that survives when the edge it named is removed.
C17_IndexedWhereKept ==
    gpc = "graph" =>
        /\ last_op = "split_edges" =>
             \A i \in DOMAIN intersections : Indexed(i) /\ IndexedAtIncident(i)
        /\ Range(node_to_edge) \subseteq DOMAIN edges
        /\ \A i \in DOMAIN intersections : Indexed(i) => IndexedAtIncident(i)

\* After a removal an intersection is left whose raw node is no key of
\* node_to_edge, next to one whose raw node still is.
C17_Witness ==
    /\ gpc = "graph"
    /\ last_op = "remove_edges"
    /\ \E i, j \in DOMAIN intersections :
         /\ ~Indexed(i)
         /\ Indexed(j)
         /\ IndexedAtIncident(j)

====
